---- MODULE Spec2Model ----
(***************************************************************************)
(* Model of the mergenX hybrid hotel search: the /search/hybrid handler    *)
(* (apps/api/v1/endpoints/search.py), the services it calls                *)
(* (services/ai/embeddings.py, services/ai/llm.py), the API-key gate       *)
(* (core/security.py) and the hotels table it reads (core/models.py).      *)
(*                                                                         *)
(* One request is followed through the handler's steps; the catalog is     *)
(* filled by inserts between requests.  SQL statements are modelled by     *)
(* their declared semantics: WHERE, ORDER BY and LIMIT are exact, and the  *)
(* order of rows the statement does not order (no ORDER BY, or equal sort  *)
(* keys) is any order.                                                     *)
(*                                                                         *)
(* Numbers: similarity and cosine distance are fixed-point, in units of    *)
(* 1/One (One = 2 stands for 1.0).  Embedding vectors are unit vectors of  *)
(* the plane at multiples of 60 degrees, named by the multiple 0..5, so    *)
(* that every cosine is a multiple of 1/2.                                 *)
(*                                                                         *)
(* Further specifications follow the parts around the handler: requests    *)
(* handled concurrently by one process (SpecProcess), the embedder called  *)
(* directly (SpecEmbedder), the ingestion scripts (SpecIngest), and the    *)
(* tenants table with create_tenant and the API-key gate (SpecTenants).    *)
(***************************************************************************)
EXTENDS Integers, Sequences, FiniteSets, TLC

\* ------------------------------------------------------------------ bounds
MaxHotels == 2
MaxLimit == 2
\* requests the server handles at the same time
MaxRequests == 2
\* texts in one call of embed_texts
MaxTexts == 2
\* records in the hotels.json file given to seed_db
MaxRecords == 3
\* rows of the tenants table
MaxTenants == 2

\* ------------------------------------------------------- program constants
QueryMinLength == 3
QueryMaxLength == 500
LimitMin == 1
LimitMax == 20
One == 2
\* components of a vector of intfloat/multilingual-e5-base
embedding_dim == 768
\* components the column Hotel.embedding takes: Vector(768)
HotelEmbeddingDim == 768
\* seed_db's mock embeddings
EMBEDDING_DIMENSIONS == 384
\* seed_hotels flushes its session each time this many hotels were added
FlushEvery == 100

\* ------------------------------------------------------------------ values
Null == "null"
NoRequest == [kind |-> "none"]
NoResponse == [status |-> 0]

TenantIds == {"t1", "t2"}

\* tenants table: id, api_key_hash, is_active
hash_api_key(api_key) == <<"sha256", api_key>>

TenantRows ==
    { [id |-> "t1", api_key_hash |-> hash_api_key("key1"), is_active |-> TRUE],
      [id |-> "t2", api_key_hash |-> hash_api_key("key2"), is_active |-> FALSE] }

ApiKeys == {Null, "key1"}

\* The gate: the active tenant whose stored hash equals the hash of the key,
\* or Null (401).
get_current_tenant(api_key) ==
    IF api_key = Null \/ api_key = ""
    THEN Null
    ELSE LET found == { t \in TenantRows :
                          /\ t.api_key_hash = hash_api_key(api_key)
                          /\ t.is_active = TRUE }
         IN  IF found = {} THEN Null ELSE (CHOOSE t \in found : TRUE).id

\* --------------------------------------------------------------- strings
\* str.lower() of Python and lower() of PostgreSQL on the strings used here
PyLower(s) ==
    CASE s = "Antalya" -> "antalya"
      [] s = "KEMER"   -> "kemer"
      [] s = "Kemer"   -> "kemer"
      [] s = "Izmir"   -> "izmir"
      [] OTHER         -> s

SqlLower(s) ==
    CASE s = "Antalya" -> "antalya"
      [] s = "KEMER"   -> "kemer"
      [] s = "Kemer"   -> "kemer"
      [] s = "Izmir"   -> "izmir"
      [] OTHER         -> s

\* Python truthiness of an Optional[str]
Truthy(s) == s # Null /\ s # ""

\* query texts are sequences of characters
IsSpace(c) == c = " "

RECURSIVE LStrip(_)
LStrip(s) == IF s # <<>> /\ IsSpace(Head(s)) THEN LStrip(Tail(s)) ELSE s

RECURSIVE RStrip(_)
RStrip(s) ==
    IF s # <<>> /\ IsSpace(s[Len(s)]) THEN RStrip(SubSeq(s, 1, Len(s) - 1)) ELSE s

Strip(s) == RStrip(LStrip(s))

\* ----------------------------------------------------------------- vectors
\* A stored or computed vector is <<j>>, the unit vector at 60*j degrees; a
\* NULL embedding column is the empty sequence.
Directions == 0..5
NoEmbedding == <<>>

\* One * cos(60 degrees * j), j = 0..5
CosTable == <<2, 1, -1, -2, -1, 1>>

\* pgvector's <=> : cosine distance, in [0, 2*One]
CosineDistance(a, b) == One - CosTable[((a[1] - b[1]) % 6) + 1]

\* ------------------------------------------------------------------- state
VARIABLES
    hotels,           \* the hotels table, in insertion order
    pc,               \* the handler's position
    request,          \* the request being handled
    query_embedding,  \* the vector embed_text returned
    hotel_results,    \* the list the Rank step built
    ai_summary,       \* the summary the handler holds
    summarizer,       \* how the call of GroqService.generate_summary ended
    response,         \* the HTTP response
    stages,           \* the stages the request has entered, in order
    calls,            \* calls made for the request: model, database, generation
    encode_outcome,   \* what the model handed back to embed_text
    previous,         \* the last answered search, when the client repeats it
    unit,             \* a direct call of GroqService.generate_summary
    _embedder,        \* search.py's module-level embedder, None until built
    _groq_service,    \* search.py's module-level Groq service, None until built
    constructed,      \* service instances constructed so far in the process
    tasks,            \* the requests in flight on the server, by position
    loop,             \* the request whose code holds the event-loop thread
    embed_call,       \* a direct call of MergenEmbedder.embed_text / embed_texts
    seed,             \* a run of seed_db's seed_hotels and its session
    tenants,          \* the tenants table, in insertion order
    creates,          \* the POST /tenants requests in flight, by position
    auth              \* a call of get_current_tenant

\* the process around the handlers: module globals, threads, event loop
process == <<_embedder, _groq_service, constructed, tasks, loop>>

\* what lies outside a single pass through hybrid_search
\* the tenants table and the requests that read and write it
tenancy == <<tenants, creates, auth>>

aside == <<process, embed_call, seed, tenancy>>

vars == <<hotels, pc, request, query_embedding, hotel_results, ai_summary,
          summarizer, response, stages, calls, encode_outcome, previous, unit,
          aside>>

\* ------------------------------------------------------------ input domains
\* rows the ingestion scripts can store: (city, district) as given by the
\* data files, an embedding or none
Locations ==
    { [city |-> "Antalya", district |-> "Kemer"],
      [city |-> "Antalya", district |-> Null],
      [city |-> "izmir",   district |-> "cesme"] }

StoredEmbeddings == {NoEmbedding, <<0>>, <<3>>}

\* tenant t1 has hotels anywhere; those of t2 are all in Antalya/Kemer
HotelRows ==
    { [tenant_id |-> "t1", city |-> l.city, district |-> l.district, embedding |-> e] :
        l \in Locations, e \in StoredEmbeddings }
    \cup
    { [tenant_id |-> "t2", city |-> "Antalya", district |-> "Kemer", embedding |-> e] :
        e \in StoredEmbeddings }

\* what the sentence-transformers model can hand back for a query
QueryVectors == {<<0>>, <<2>>}
EncodeOutcomes ==
    { [kind |-> "vector", vector |-> v] : v \in QueryVectors }
        \cup { [kind |-> "wrong_length"], [kind |-> "model_error"] }

\* what the Groq client can hand back
GenerationOutcomes ==
    { [kind |-> "text", text |-> "Found options."],
      [kind |-> "text", text |-> ""],
      [kind |-> "raise"] }

GoodQuery == <<"s", "p", "a">>
LongQuery == [i \in 1..(QueryMaxLength + 1) |-> "a"]

\* a tenant_id that is a string but no UUID
MalformedTenantIds == {"not-a-uuid"}

\* requests that pass validation
ValidRequests ==
    { [api_key |-> a, tenant_id |-> t, query |-> GoodQuery, limit |-> k,
       include_ai_summary |-> s, city |-> c, district |-> d] :
        a \in ApiKeys, t \in TenantIds, k \in LimitMin..MaxLimit, s \in BOOLEAN,
        c \in {Null, "antalya"}, d \in {Null, "KEMER"} }

BaseRequest ==
    [api_key |-> "key1", tenant_id |-> "t1", query |-> GoodQuery, limit |-> 1,
     include_ai_summary |-> FALSE, city |-> Null, district |-> Null]

\* requests with one field out of the ordinary
OddRequests ==
    { [BaseRequest EXCEPT !.query = q] :
        q \in { <<>>, <<" ", " ", " ">>, <<"a", "b">>, <<" ", "a", " ">>, LongQuery } }
    \cup { [BaseRequest EXCEPT !.limit = k] : k \in {LimitMin - 1, LimitMax, LimitMax + 1} }
    \cup { [BaseRequest EXCEPT !.tenant_id = t] : t \in {Null} \cup MalformedTenantIds }
    \cup { [BaseRequest EXCEPT !.city = c] : c \in {""} }

Requests == ValidRequests \cup OddRequests

\* ----------------------------------------------------------------- helpers
Min(a, b) == IF a <= b THEN a ELSE b
Max(a, b) == IF a >= b THEN a ELSE b

\* the sequences that list every element of the finite set S once
Orderings(S) ==
    { f \in [1..Cardinality(S) -> S] : \A i, j \in 1..Cardinality(S) : f[i] = f[j] => i = j }

LimitNone(rows, k) == rows

\* LIMIT k
Limit(rows, k) == SubSeq(rows, 1, Min(k, Len(rows)))

HttpError(code) == [status |-> code]

\* ----------------------------------------------------- HybridSearchRequest
RequestModelValidNoMax(req) ==
    /\ req.tenant_id # Null
    /\ Len(req.query) >= QueryMinLength
    /\ req.limit >= LimitMin

\* the field constraints pydantic enforces before the handler runs
RequestModelValid(req) ==
    /\ req.tenant_id # Null
    /\ Len(req.query) >= QueryMinLength
    /\ Len(req.query) <= QueryMaxLength
    /\ req.limit >= LimitMin
    /\ req.limit <= LimitMax

\* "if not request.query or not request.query.strip()"
QueryIsBlank(query) == query = <<>> \/ Strip(query) = <<>>

\* ------------------------------------------------ MergenEmbedder.embed_text
\* what embed_text does with the model's answer: a vector, or an exception
embed_text(text, encoded) ==
    IF text = <<>> \/ Strip(text) = <<>>
    THEN [kind |-> "ValueError"]
    ELSE CASE encoded.kind = "vector"       -> [kind |-> "ok", vector |-> encoded.vector]
           [] encoded.kind = "wrong_length" -> [kind |-> "ValueError"]
           [] OTHER                         -> [kind |-> "Exception"]

\* ------------------------------------------------------------ the two queries
CityMatches(h, req) ==
    Truthy(req.city) => SqlLower(h.city) = PyLower(req.city)

DistrictMatches(h, req) ==
    Truthy(req.district) =>
        (h.district # Null /\ SqlLower(h.district) = PyLower(req.district))

\* WHERE of the vector query: ids (positions) of the rows it selects
VectorCandidates(req) ==
    { i \in DOMAIN hotels :
        /\ hotels[i].tenant_id = req.tenant_id
        /\ hotels[i].embedding # NoEmbedding
        /\ CityMatches(hotels[i], req)
        /\ DistrictMatches(hotels[i], req) }

FallbackCandidatesAnyTenant(req) == DOMAIN hotels

\* WHERE of the query run when the vector query returned no row
FallbackCandidates(req) ==
    { i \in DOMAIN hotels : hotels[i].tenant_id = req.tenant_id }

DistanceOrderDesc(da, db) == da >= db

\* ORDER BY embedding <=> query_embedding ASC: "a may come before b"
DistanceOrder(da, db) == da <= db

\* the row orders ORDER BY ... ASC allows over the ids in S
OrderedByDistance(S, q) ==
    { f \in Orderings(S) :
        \A i, j \in 1..Cardinality(S) :
            i < j => DistanceOrder(CosineDistance(hotels[f[i]].embedding, q),
                                   CosineDistance(hotels[f[j]].embedding, q)) }

SimilarityScoreUnclamped(distance) == One - distance

\* "similarity_score=max(0.0, 1.0 - float(row[11]))"
SimilarityScore(distance) == Max(0, One - distance)

VectorResult(i, q) ==
    [id |-> i, city |-> hotels[i].city, district |-> hotels[i].district,
     similarity_score |-> SimilarityScore(CosineDistance(hotels[i].embedding, q))]

FallbackResult(i) ==
    [id |-> i, city |-> hotels[i].city, district |-> hotels[i].district,
     similarity_score |-> 0]

\* Step 2 of the handler: the lists it can build for a request and a query
\* vector over the present catalog
RankOutputs(req, q) ==
    LET vector ==
            { Limit(order, req.limit) : order \in OrderedByDistance(VectorCandidates(req), q) }
        fallback ==
            { Limit(any, req.limit) : any \in Orderings(FallbackCandidates(req)) }
    IN  { [n \in DOMAIN rows |-> VectorResult(rows[n], q)] : rows \in vector \ {<<>>} }
        \cup
        IF <<>> \in vector
        THEN { [n \in DOMAIN found |-> FallbackResult(found[n])] : found \in fallback }
        ELSE {}

\* ------------------------------------------------------------- GroqService
\* generate: the content of the first choice, or the client's exception
generate(outcome) ==
    IF outcome.kind = "raise"
    THEN [kind |-> "raised"]
    ELSE [kind |-> "returned", text |-> outcome.text]

\* generate_summary: builds the context and returns what generate gives
generate_summary(hotel_dicts, outcome) == generate(outcome)

SummaryOrRaise(result) ==
    IF result.kind = "raised"
    THEN [status |-> 500, ai_summary |-> Null]
    ELSE [status |-> 200, ai_summary |-> result.text]

\* the handler's try/except around generate_summary
SummaryOrNone(result) ==
    IF result.kind = "raised"
    THEN [status |-> 200, ai_summary |-> Null]
    ELSE [status |-> 200, ai_summary |-> result.text]

\* ------------------------------------------------------- steps and calls
StageNames == {"validate", "embed", "rank", "summarize", "assemble"}

\* the stage history after a step that leaves the handler at position next
Entered(history, next) ==
    IF next \in StageNames THEN Append(history, next) ELSE history

NoCalls == [embed |-> 0, db |-> 0, generate |-> 0]
NoPrevious == [kind |-> "none"]
NoUnit == [pc |-> "idle"]

\* embed_text reaches self.model.encode only past its emptiness check
ModelInvoked(text) == ~(text = <<>> \/ Strip(text) = <<>>)

EmbedFailureRetry(exc) == [pc |-> "embed", status |-> 0]

\* the handler's except clauses around embed_text: ValueError, then Exception
EmbedFailure(exc) ==
    [pc |-> "failed", status |-> IF exc = "ValueError" THEN 400 ELSE 500]

\* binding request.tenant_id (a str) to the UUID column tenant_id
TenantIdBinds(tenant_id) == tenant_id \notin MalformedTenantIds

\* statements the Rank step executes: the vector query, then the fallback
DbStatements(req) == IF VectorCandidates(req) = {} THEN 2 ELSE 1

AfterRankAlways(include_ai_summary, results) == "summarize"

\* "if request.include_ai_summary and hotel_results"
AfterRank(include_ai_summary, results) ==
    IF include_ai_summary /\ results # <<>> THEN "summarize" ELSE "assemble"

\* ------------------------------------------------- the process, at start
\* the requests the server can have in flight
Workers == 1..MaxRequests

\* instances are numbered 1, 2, ... in the order of construction; None is
\* the value of a module global not yet assigned
None == 0

\* the loop thread running no request's code
Nobody == 0

NoneConstructed == [embedder |-> 0, groq_service |-> 0]

\* a request not yet arrived: no dependency resolved
NoTask == [pc |-> "idle", embedder |-> None, groq_service |-> None]

\* no POST /tenants under way for a position
NoCreate == [pc |-> "idle"]

\* get_current_tenant not called
NoAuth == [pc |-> "idle"]

\* seed_db not running
NoSeed == [pc |-> "idle"]

\* no call of the embedder under way
NoEmbedCall == [pc |-> "idle"]

\* ------------------------------------------------------------------ actions
Init ==
    /\ hotels = <<>>
    /\ pc = "idle"
    /\ request = NoRequest
    /\ query_embedding = NoEmbedding
    /\ hotel_results = <<>>
    /\ ai_summary = Null
    /\ summarizer = "not_called"
    /\ response = NoResponse
    /\ stages = <<>>
    /\ calls = NoCalls
    /\ encode_outcome = "none"
    /\ previous = NoPrevious
    /\ unit = NoUnit
    /\ _embedder = None
    /\ _groq_service = None
    /\ constructed = NoneConstructed
    /\ tasks = [r \in Workers |-> NoTask]
    /\ loop = Nobody
    /\ embed_call = NoEmbedCall
    /\ seed = NoSeed
    /\ tenants = <<>>
    /\ creates = [r \in Workers |-> NoCreate]
    /\ auth = NoAuth

\* an ingestion script stores one more hotel
AddHotel ==
    /\ pc = "idle"
    /\ previous = NoPrevious
    /\ unit = NoUnit
    /\ Len(hotels) < MaxHotels
    /\ \E h \in HotelRows : hotels' = Append(hotels, h)
    /\ UNCHANGED <<pc, request, query_embedding, hotel_results, ai_summary,
                   summarizer, response, stages, calls, encode_outcome,
                   previous, unit, aside>>

\* POST /search/hybrid arrives
Receive ==
    /\ pc = "idle"
    /\ previous = NoPrevious
    /\ unit = NoUnit
    /\ \E req \in Requests : request' = req
    /\ pc' = "validate"
    /\ stages' = Entered(stages, pc')
    /\ UNCHANGED <<hotels, query_embedding, hotel_results, ai_summary,
                   summarizer, response, calls, encode_outcome, previous, unit, aside>>

Validate ==
    /\ pc = "validate"
    /\ IF ~RequestModelValid(request)
       THEN /\ response' = HttpError(422)
            /\ pc' = "failed"
       ELSE IF QueryIsBlank(request.query)
       THEN /\ response' = HttpError(400)
            /\ pc' = "failed"
       ELSE /\ response' = response
            /\ pc' = "embed"
    /\ stages' = Entered(stages, pc')
    /\ UNCHANGED <<hotels, request, query_embedding, hotel_results, ai_summary,
                   summarizer, calls, encode_outcome, previous, unit, aside>>

Embed ==
    /\ pc = "embed"
    /\ \E encoded \in EncodeOutcomes :
         LET r == embed_text(request.query, encoded)
         IN  /\ encode_outcome' =
                    IF ModelInvoked(request.query) THEN encoded.kind ELSE encode_outcome
             /\ IF r.kind = "ok"
                THEN /\ query_embedding' = r.vector
                     /\ pc' = "rank"
                     /\ response' = response
                ELSE LET f == EmbedFailure(r.kind)
                     IN  /\ query_embedding' = query_embedding
                         /\ pc' = f.pc
                         /\ response' = IF f.pc = "failed" THEN HttpError(f.status)
                                        ELSE response
    /\ calls' = IF ModelInvoked(request.query)
                THEN [calls EXCEPT !.embed = @ + 1] ELSE calls
    /\ stages' = Entered(stages, pc')
    /\ UNCHANGED <<hotels, request, hotel_results, ai_summary, summarizer,
                   previous, unit, aside>>

Rank ==
    /\ pc = "rank"
    /\ IF TenantIdBinds(request.tenant_id)
       THEN /\ hotel_results' \in RankOutputs(request, query_embedding)
            /\ pc' = AfterRank(request.include_ai_summary, hotel_results')
            /\ calls' = [calls EXCEPT !.db = @ + DbStatements(request)]
            /\ response' = response
       ELSE /\ hotel_results' = hotel_results
            /\ pc' = "failed"
            /\ calls' = [calls EXCEPT !.db = @ + 1]
            /\ response' = HttpError(500)
    /\ stages' = Entered(stages, pc')
    /\ UNCHANGED <<hotels, request, query_embedding, ai_summary, summarizer,
                   encode_outcome, previous, unit, aside>>

Summarize ==
    /\ pc = "summarize"
    /\ \E outcome \in GenerationOutcomes :
         LET result == generate_summary(hotel_results, outcome)
             kept   == SummaryOrNone(result)
         IN  /\ summarizer' = result.kind
             /\ IF kept.status = 200
                THEN /\ ai_summary' = kept.ai_summary
                     /\ pc' = "assemble"
                     /\ response' = response
                ELSE /\ ai_summary' = ai_summary
                     /\ pc' = "failed"
                     /\ response' = HttpError(kept.status)
    /\ calls' = [calls EXCEPT !.generate = @ + 1]
    /\ stages' = Entered(stages, pc')
    /\ UNCHANGED <<hotels, request, query_embedding, hotel_results,
                   encode_outcome, previous, unit, aside>>

Assemble ==
    /\ pc = "assemble"
    /\ response' = [status |-> 200, hotels |-> hotel_results,
                    total_results |-> Len(hotel_results), ai_summary |-> ai_summary]
    /\ pc' = "done"
    /\ UNCHANGED <<hotels, request, query_embedding, hotel_results, ai_summary,
                   summarizer, stages, calls, encode_outcome, previous, unit, aside>>

\* the handler's locals are gone once the response is sent
Forget ==
    /\ pc' = "idle"
    /\ request' = NoRequest
    /\ query_embedding' = NoEmbedding
    /\ hotel_results' = <<>>
    /\ ai_summary' = Null
    /\ summarizer' = "not_called"
    /\ response' = NoResponse
    /\ stages' = <<>>
    /\ calls' = NoCalls
    /\ encode_outcome' = "none"

\* the response has been sent
Deliver ==
    /\ pc \in {"done", "failed"}
    /\ previous = NoPrevious
    /\ Forget
    /\ UNCHANGED <<hotels, previous, unit, aside>>

Next ==
    \/ AddHotel
    \/ Receive
    \/ Validate
    \/ Embed
    \/ Rank
    \/ Summarize
    \/ Assemble
    \/ Deliver

Spec == Init /\ [][Next]_vars

\* ------------------------------------------- a client repeating its search
\* the response has been sent; the first answered search is remembered
DeliverAndKeep ==
    /\ pc \in {"done", "failed"}
    /\ previous' = IF pc = "done" /\ previous = NoPrevious
                   THEN [kind |-> "search", request |-> request,
                         query_embedding |-> query_embedding,
                         hotels |-> response.hotels]
                   ELSE previous
    /\ Forget
    /\ UNCHANGED <<hotels, unit, aside>>

\* the same request is posted again, the catalog unchanged
Repeat ==
    /\ pc = "idle"
    /\ previous # NoPrevious
    /\ request' = previous.request
    /\ pc' = "validate"
    /\ stages' = Entered(stages, pc')
    /\ UNCHANGED <<hotels, query_embedding, hotel_results, ai_summary,
                   summarizer, response, calls, encode_outcome, previous, unit, aside>>

NextRepeat ==
    \/ AddHotel
    \/ Receive
    \/ Validate
    \/ Embed
    \/ Rank
    \/ Summarize
    \/ Assemble
    \/ DeliverAndKeep
    \/ Repeat

SpecRepeat == Init /\ [][NextRepeat]_vars

\* ------------------------------ GroqService.generate_summary called directly
UnitHotelDicts ==
    { [name |-> "Hotel A"], [name |-> "Hotel B"], [name |-> "Hotel C"] }

UnitHotelLists ==
    UNION { [1..n -> UnitHotelDicts] : n \in 0..MaxHotels }

UnitQueries == { "spa otel", "beach hotel" }

\* "Found hotels:" and one numbered entry for each hotel, in list order
hotel_context(hotel_dicts) ==
    [n \in DOMAIN hotel_dicts |-> <<n, hotel_dicts[n].name>>]

UnitHandlerIdle ==
    UNCHANGED <<hotels, pc, request, query_embedding, hotel_results, ai_summary,
                summarizer, response, stages, calls, encode_outcome, previous,
                aside>>

\* generate_summary(hotels, user_query) is called
UnitCall ==
    /\ pc = "idle"
    /\ unit = NoUnit
    /\ \E hs \in UnitHotelLists, q \in UnitQueries :
         unit' = [pc |-> "called", hotels |-> hs, user_query |-> q,
                  context |-> <<>>, calls |-> 0, result |-> [kind |-> "none"]]
    /\ UnitHandlerIdle

\* the loop that formats the hotels
UnitBuildContext ==
    /\ unit.pc = "called"
    /\ unit' = [unit EXCEPT !.pc = "context", !.context = hotel_context(unit.hotels)]
    /\ UnitHandlerIdle

\* "return await self.generate(...)": the client is called
UnitGenerate ==
    /\ unit.pc = "context"
    /\ \E outcome \in GenerationOutcomes :
         unit' = [unit EXCEPT !.pc = "returned", !.calls = @ + 1,
                              !.result = generate_summary(unit.hotels, outcome)]
    /\ UnitHandlerIdle

UnitReturn ==
    /\ unit.pc = "returned"
    /\ unit' = NoUnit
    /\ UnitHandlerIdle

NextSummarizer ==
    \/ UnitCall
    \/ UnitBuildContext
    \/ UnitGenerate
    \/ UnitReturn

SpecSummarizer == Init /\ [][NextSummarizer]_vars

\* --------------------------- requests handled concurrently by one process
\* FastAPI resolves the handler's dependencies one after the other; a
\* dependency written with "def" runs in a worker thread, so the statements of
\* get_embedder and get_groq_service of different requests interleave.  The
\* handler itself is a coroutine of the event loop: between two awaits its
\* code runs alone on the loop thread, and a call that does not await keeps
\* the thread until it returns.

\* the state of one pass through hybrid_search, which these steps leave alone
handler == <<hotels, pc, request, query_embedding, hotel_results, ai_summary,
             summarizer, response, stages, calls, encode_outcome, previous, unit>>

\* a request arrives; its dependencies are resolved first
Arrive(r) ==
    /\ tasks[r].pc = "idle"
    /\ tasks' = [tasks EXCEPT ![r].pc = "get_embedder"]
    /\ UNCHANGED <<_embedder, _groq_service, constructed, loop, handler, embed_call, seed, tenancy>>

\* get_embedder: "if _embedder is None"
GetEmbedderTest(r) ==
    /\ tasks[r].pc = "get_embedder"
    /\ tasks' = [tasks EXCEPT ![r].pc =
                    IF _embedder = None THEN "new_embedder" ELSE "return_embedder"]
    /\ UNCHANGED <<_embedder, _groq_service, constructed, loop, handler, embed_call, seed, tenancy>>

\* get_embedder: "_embedder = MergenEmbedder()"
GetEmbedderNew(r) ==
    /\ tasks[r].pc = "new_embedder"
    /\ constructed' = [constructed EXCEPT !.embedder = @ + 1]
    /\ _embedder' = constructed'.embedder
    /\ tasks' = [tasks EXCEPT ![r].pc = "return_embedder"]
    /\ UNCHANGED <<_groq_service, loop, handler, embed_call, seed, tenancy>>

\* get_embedder: "return _embedder"
GetEmbedderReturn(r) ==
    /\ tasks[r].pc = "return_embedder"
    /\ tasks' = [tasks EXCEPT ![r].embedder = _embedder,
                              ![r].pc = "get_groq_service"]
    /\ UNCHANGED <<_embedder, _groq_service, constructed, loop, handler, embed_call, seed, tenancy>>

\* get_groq_service: "if _groq_service is None"
GetGroqServiceTest(r) ==
    /\ tasks[r].pc = "get_groq_service"
    /\ tasks' = [tasks EXCEPT ![r].pc =
                    IF _groq_service = None THEN "new_groq_service"
                    ELSE "return_groq_service"]
    /\ UNCHANGED <<_embedder, _groq_service, constructed, loop, handler, embed_call, seed, tenancy>>

\* get_groq_service: "_groq_service = GroqService()"
GetGroqServiceNew(r) ==
    /\ tasks[r].pc = "new_groq_service"
    /\ constructed' = [constructed EXCEPT !.groq_service = @ + 1]
    /\ _groq_service' = constructed'.groq_service
    /\ tasks' = [tasks EXCEPT ![r].pc = "return_groq_service"]
    /\ UNCHANGED <<_embedder, loop, handler, embed_call, seed, tenancy>>

\* get_groq_service: "return _groq_service"; the handler is ready to start
GetGroqServiceReturn(r) ==
    /\ tasks[r].pc = "return_groq_service"
    /\ tasks' = [tasks EXCEPT ![r].groq_service = _groq_service,
                              ![r].pc = "handler"]
    /\ UNCHANGED <<_embedder, _groq_service, constructed, loop, handler, embed_call, seed, tenancy>>

\* the positions at which a request waits for the loop to run its code
Resumable(r) == tasks[r].pc \in {"handler", "embed_ready", "db_ready"}

\* the loop thread can run a coroutine only when no code is running on it
LoopFree == loop = Nobody

\* the handler runs up to "await loop.run_in_executor(...)" in embed_text:
\* model.encode goes to a thread of the executor and the loop is given back
HandlerToEmbed(r) ==
    /\ tasks[r].pc = "handler"
    /\ LoopFree
    /\ tasks' = [tasks EXCEPT ![r].pc = "embed_wait"]
    /\ UNCHANGED <<_embedder, _groq_service, constructed, loop, handler, embed_call, seed, tenancy>>

\* the executor thread finishes model.encode
EncodeDone(r) ==
    /\ tasks[r].pc = "embed_wait"
    /\ tasks' = [tasks EXCEPT ![r].pc = "embed_ready"]
    /\ UNCHANGED <<_embedder, _groq_service, constructed, loop, handler, embed_call, seed, tenancy>>

\* the handler runs on up to "await db.execute(stmt)"
HandlerToDb(r) ==
    /\ tasks[r].pc = "embed_ready"
    /\ LoopFree
    /\ tasks' = [tasks EXCEPT ![r].pc = "db_wait"]
    /\ UNCHANGED <<_embedder, _groq_service, constructed, loop, handler, embed_call, seed, tenancy>>

\* the database answers
DbDone(r) ==
    /\ tasks[r].pc = "db_wait"
    /\ tasks' = [tasks EXCEPT ![r].pc = "db_ready"]
    /\ UNCHANGED <<_embedder, _groq_service, constructed, loop, handler, embed_call, seed, tenancy>>

\* the handler runs on: with a summary wanted and hotels found it enters
\* GroqService.generate and calls client.chat.completions.create; otherwise
\* it builds the response and returns.  The client is the synchronous Groq
\* client and the call is not awaited: the loop thread is the request's
\* until the answer is in
HandlerToGenerate(r) ==
    /\ tasks[r].pc = "db_ready"
    /\ LoopFree
    /\ \E summary_wanted \in BOOLEAN :
         IF summary_wanted
         THEN /\ tasks' = [tasks EXCEPT ![r].pc = "generate_call"]
              /\ loop' = r
         ELSE /\ tasks' = [tasks EXCEPT ![r].pc = "done"]
              /\ loop' = loop
    /\ UNCHANGED <<_embedder, _groq_service, constructed, handler, embed_call, seed, tenancy>>

\* the Groq API answers (or the call raises); the handler builds the response
GenerateDone(r) ==
    /\ tasks[r].pc = "generate_call"
    /\ tasks' = [tasks EXCEPT ![r].pc = "done"]
    /\ loop' = Nobody
    /\ UNCHANGED <<_embedder, _groq_service, constructed, handler, embed_call, seed, tenancy>>

\* the response is sent and the request's locals are gone
Respond(r) ==
    /\ tasks[r].pc = "done"
    /\ tasks' = [tasks EXCEPT ![r] = NoTask]
    /\ UNCHANGED <<_embedder, _groq_service, constructed, loop, handler, embed_call, seed, tenancy>>

NextProcess ==
    \E r \in Workers :
        \/ Arrive(r)
        \/ GetEmbedderTest(r)
        \/ GetEmbedderNew(r)
        \/ GetEmbedderReturn(r)
        \/ GetGroqServiceTest(r)
        \/ GetGroqServiceNew(r)
        \/ GetGroqServiceReturn(r)
        \/ HandlerToEmbed(r)
        \/ EncodeDone(r)
        \/ HandlerToDb(r)
        \/ DbDone(r)
        \/ HandlerToGenerate(r)
        \/ GenerateDone(r)
        \/ Respond(r)

SpecProcess == Init /\ [][NextProcess]_vars

\* -------------------------------- MergenEmbedder.embed_text / embed_texts
\* texts are sequences of characters; a vector is the sequence of its
\* components.  The model is a function of its input: every component of the
\* vector of an input is the input's length, so that the vectors of inputs of
\* different lengths differ.
Chars(word) ==
    CASE word = "query" -> <<"q", "u", "e", "r", "y">>
      [] word = "passage" -> <<"p", "a", "s", "s", "a", "g", "e">>

\* the text without any marker
Unprefixed(prefix, t) == t

\* f"{prefix}: {t}"
Prefixed(prefix, t) == Chars(prefix) \o <<":", " ">> \o t

UnitTexts == { <<>>, <<" ", " ">>, <<"s", "p", "a">>, <<"o", "t", "e", "l">> }

UnitTextLists == UNION { [1..n -> UnitTexts] : n \in 0..MaxTexts }

Prefixes == {"passage", "query"}

\* the widths the model can hand back
EncodedDims == {embedding_dim - 1, embedding_dim, embedding_dim + 1}

\* SentenceTransformer.encode of one string: a 1-d array
encode(input, d) == [i \in 1..d |-> Len(input)]

\* SentenceTransformer.encode of a list: one row for each input, in order
encode_batch(inputs, d) == [n \in DOMAIN inputs |-> encode(inputs[n], d)]

\* "not text or not text.strip()"
TextIsEmpty(t) == t = <<>> \/ Strip(t) = <<>>

\* "[t for t in texts if t and t.strip()]"
valid_texts(texts) == SelectSeq(texts, LAMBDA t : ~TextIsEmpty(t))

\* embed_texts: which texts go to the model; none when the call is refused
TextsToEncodeLenient(texts) ==
    IF texts = <<>> THEN <<>> ELSE valid_texts(texts)

TextsToEncode(texts) ==
    IF texts = <<>> \/ Len(valid_texts(texts)) # Len(texts) THEN <<>> ELSE texts

\* embed_text: the checks on what the model returned
CheckedVectorAnyWidth(result) == [kind |-> "ok", vector |-> result]

CheckedVector(result) ==
    IF Len(result) # embedding_dim
    THEN [kind |-> "ValueError"]
    ELSE [kind |-> "ok", vector |-> result]

\* embed_texts: the loop over the rows the model returned
CheckedVectors(result) ==
    IF \E i \in DOMAIN result : Len(result[i]) # embedding_dim
    THEN [kind |-> "ValueError"]
    ELSE [kind |-> "ok", vectors |-> result]

embedder_frame ==
    UNCHANGED <<handler, process, seed, tenancy>>

\* embed_text(text) is called
EmbedTextCalled ==
    /\ embed_call = NoEmbedCall
    /\ \E t \in UnitTexts :
         embed_call' = [pc |-> "check", method |-> "embed_text", texts |-> <<t>>,
                        prefix |-> "query", input |-> <<>>, invoked |-> 0,
                        encoded |-> <<>>, result |-> [kind |-> "none"]]
    /\ embedder_frame

\* embed_texts(texts) or embed_texts(texts, prefix=...) is called
EmbedTextsCalled ==
    /\ embed_call = NoEmbedCall
    /\ \E ts \in UnitTextLists, prefix \in Prefixes :
         embed_call' = [pc |-> "check", method |-> "embed_texts", texts |-> ts,
                        prefix |-> prefix, input |-> <<>>, invoked |-> 0,
                        encoded |-> <<>>, result |-> [kind |-> "none"]]
    /\ embedder_frame

\* embed_text: the empty check, then the "query: " prefix
EmbedTextPrefix ==
    /\ embed_call.pc = "check"
    /\ embed_call.method = "embed_text"
    /\ IF TextIsEmpty(embed_call.texts[1])
       THEN embed_call' = [embed_call EXCEPT !.pc = "returned",
                                             !.result = [kind |-> "ValueError"]]
       ELSE embed_call' = [embed_call EXCEPT !.pc = "encode",
                              !.input = <<Prefixed("query", embed_call.texts[1])>>]
    /\ embedder_frame

\* embed_texts: the empty checks, then the prefix on every text
EmbedTextsPrefix ==
    /\ embed_call.pc = "check"
    /\ embed_call.method = "embed_texts"
    /\ LET to_encode == TextsToEncode(embed_call.texts)
       IN  IF to_encode = <<>>
           THEN embed_call' = [embed_call EXCEPT !.pc = "returned",
                                                 !.result = [kind |-> "ValueError"]]
           ELSE embed_call' = [embed_call EXCEPT !.pc = "encode",
                    !.input = [n \in DOMAIN to_encode |->
                                 Prefixed(embed_call.prefix, to_encode[n])]]
    /\ embedder_frame

\* the executor runs model.encode: it returns an array or raises
EmbedEncode ==
    /\ embed_call.pc = "encode"
    /\ \/ \E d \in EncodedDims :
            embed_call' = [embed_call EXCEPT !.pc = "convert", !.invoked = @ + 1,
                              !.encoded = encode_batch(embed_call.input, d)]
       \/ embed_call' = [embed_call EXCEPT !.pc = "returned", !.invoked = @ + 1,
                                            !.result = [kind |-> "Exception"]]
    /\ embedder_frame

\* tolist() and the checks of the dimension
EmbedCheckResult ==
    /\ embed_call.pc = "convert"
    /\ embed_call' = [embed_call EXCEPT !.pc = "returned",
                          !.result = IF embed_call.method = "embed_text"
                                     THEN CheckedVector(embed_call.encoded[1])
                                     ELSE CheckedVectors(embed_call.encoded)]
    /\ embedder_frame

\* the caller has the vectors or the exception
EmbedReturn ==
    /\ embed_call.pc = "returned"
    /\ embed_call' = NoEmbedCall
    /\ embedder_frame

NextEmbedder ==
    \/ EmbedTextCalled
    \/ EmbedTextsCalled
    \/ EmbedTextPrefix
    \/ EmbedTextsPrefix
    \/ EmbedEncode
    \/ EmbedCheckResult
    \/ EmbedReturn

SpecEmbedder == Init /\ [][NextEmbedder]_vars

\* ------------------------------------------------- the ingestion scripts
\* Rows of the hotels table as the scripts write them: tenant, external_id,
\* name and embedding, the embedding being the sequence of its components
\* (<<>> for NULL).  Component values play no part and are written 0, except
\* those the embedder computes.

\* embed_texts as one function of its arguments and of the width the model
\* hands back
embed_texts(texts, prefix, d) ==
    LET to_encode == TextsToEncode(texts)
    IN  IF to_encode = <<>>
        THEN [kind |-> "ValueError"]
        ELSE CheckedVectors(encode_batch(
                 [n \in DOMAIN to_encode |-> Prefixed(prefix, to_encode[n])], d))

\* "[random.uniform(-1.0, 1.0) for _ in range(dim)]", normalised
generate_mock_embedding == [i \in 1..EMBEDDING_DIMENSIONS |-> 0]

\* the column Hotel.embedding: Vector(768), nullable
ColumnAccepts(embedding) ==
    embedding = NoEmbedding \/ Len(embedding) = HotelEmbeddingDim

HotelName == <<"o", "t", "e", "l">>

\* external ids are sequences: a key of the file, or the parts of a made-up one
NoExternalId == <<>>

\* the tenant both seed scripts write for
SeedTenant == "t1"

\* records of data/hotels.json: with or without an external_id
SeedRecords == { [external_id |-> e] : e \in {<<"h1">>, <<"h2">>, NoExternalId} }

SeedFiles == UNION { [1..n -> SeedRecords] : n \in 0..MaxRecords }

\* 'hotel_json.get("external_id") or f"hotel_{idx}_{name}"'
ExternalIdOf(hotel_json, idx) ==
    IF hotel_json.external_id # NoExternalId THEN hotel_json.external_id
    ELSE <<"hotel", idx>>

ingest_frame ==
    UNCHANGED <<pc, request, query_embedding, hotel_results, ai_summary,
                summarizer, response, stages, calls, encode_outcome, previous,
                unit, process, embed_call, tenancy>>

\* seed_real_hotels: the tenant's hotels are deleted
SeedRealClear ==
    /\ seed = NoSeed
    /\ hotels' = SelectSeq(hotels, LAMBDA h : h.tenant_id # SeedTenant)
    /\ hotels' # hotels
    /\ UNCHANGED seed
    /\ ingest_frame

\* seed_real_hotels: one batch is embedded as passages and inserted, the
\* rows without external_id; an exception of embed_texts ends the script
SeedRealBatch ==
    /\ seed = NoSeed
    /\ \E n \in 1..MaxHotels, d \in EncodedDims :
         LET embeddings == embed_texts([i \in 1..n |-> HotelName], "passage", d)
         IN  /\ Len(hotels) + n <= MaxHotels
             /\ IF embeddings.kind = "ok"
                THEN hotels' = hotels \o
                         [i \in 1..n |->
                            [tenant_id |-> SeedTenant, external_id |-> NoExternalId,
                             name |-> HotelName,
                             embedding |-> embeddings.vectors[i]]]
                ELSE hotels' = hotels
    /\ UNCHANGED seed
    /\ ingest_frame

\* update_embeddings: every hotel gets the vector of its text
UpdateEmbeddings ==
    /\ seed = NoSeed
    /\ hotels # <<>>
    /\ \E d \in EncodedDims :
         LET embeddings ==
                 embed_texts([i \in DOMAIN hotels |-> hotels[i].name], "passage", d)
         IN  IF embeddings.kind = "ok"
             THEN hotels' = [i \in DOMAIN hotels |->
                               [hotels[i] EXCEPT !.embedding = embeddings.vectors[i]]]
             ELSE hotels' = hotels
    /\ UNCHANGED seed
    /\ ingest_frame

\* seed_db: main opens a session and seed_hotels loads the file
SeedStart ==
    /\ seed = NoSeed
    /\ \E file \in SeedFiles :
         seed' = [pc |-> "loop", hotels_data |-> file, idx |-> 1, pending |-> <<>>,
                  needs_rollback |-> FALSE, inserted_count |-> 0,
                  skipped_count |-> 0, error_count |-> 0]
    /\ UNCHANGED hotels
    /\ ingest_frame

\* session.flush(): the pending hotels are written, or the statement fails on
\* a vector the column does not take and the transaction is rolled back
FlushOk(pending) == \A n \in DOMAIN pending : ColumnAccepts(pending[n].embedding)

\* seed_hotels: one turn of the loop over the records.  The session is made
\* with autoflush=False: the SELECT sees the rows written so far, not the
\* hotels added to the session and not yet flushed.
SeedRecord ==
    /\ seed.pc = "loop"
    /\ seed.idx <= Len(seed.hotels_data)
    /\ LET external_id == ExternalIdOf(seed.hotels_data[seed.idx], seed.idx - 1)
           existing == { i \in DOMAIN hotels :
                            /\ hotels[i].tenant_id = SeedTenant
                            /\ hotels[i].external_id = external_id }
           hotel == [tenant_id |-> SeedTenant, external_id |-> external_id,
                     name |-> HotelName, embedding |-> generate_mock_embedding]
           added == Append(seed.pending, hotel)
       IN  IF seed.needs_rollback \/ Cardinality(existing) > 1
           THEN \* execute or scalar_one_or_none raises: "except Exception"
                /\ seed' = [seed EXCEPT !.idx = @ + 1, !.error_count = @ + 1]
                /\ hotels' = hotels
           ELSE IF existing # {}
           THEN /\ seed' = [seed EXCEPT !.idx = @ + 1, !.skipped_count = @ + 1]
                /\ hotels' = hotels
           ELSE IF (seed.inserted_count + 1) % FlushEvery # 0
           THEN /\ seed' = [seed EXCEPT !.idx = @ + 1, !.pending = added,
                                        !.inserted_count = @ + 1]
                /\ hotels' = hotels
           ELSE IF FlushOk(added)
           THEN /\ seed' = [seed EXCEPT !.idx = @ + 1, !.pending = <<>>,
                                        !.inserted_count = @ + 1]
                /\ hotels' = hotels \o added
           ELSE /\ seed' = [seed EXCEPT !.idx = @ + 1, !.pending = <<>>,
                                        !.inserted_count = @ + 1,
                                        !.error_count = @ + 1,
                                        !.needs_rollback = TRUE]
                /\ hotels' = hotels
    /\ ingest_frame

\* seed_hotels: the flush after the loop, then main's commit; an exception
\* ends the script and the session's transaction is rolled back
SeedFinalFlush ==
    /\ seed.pc = "loop"
    /\ seed.idx > Len(seed.hotels_data)
    /\ IF ~seed.needs_rollback /\ FlushOk(seed.pending)
       THEN hotels' = hotels \o seed.pending
       ELSE hotels' = hotels
    /\ seed' = NoSeed
    /\ ingest_frame

NextIngest ==
    \/ SeedRealClear
    \/ SeedRealBatch
    \/ UpdateEmbeddings
    \/ SeedStart
    \/ SeedRecord
    \/ SeedFinalFlush

SpecIngest == Init /\ [][NextIngest]_vars

\* ------------------------------------ tenants: create_tenant and the gate
\* Raw API keys are tokens <<"token", n>>; no key (None or "") is <<>>.
\* secrets.token_urlsafe(32) never repeats a token.
NoKey == <<>>
Token(n) == <<"token", n>>

\* keys a caller can present: none, one never issued, and the issued ones
PresentedKeys == {NoKey} \cup { Token(n) : n \in 0..MaxTenants }

Slugs == {"bitur", "jollytur"}

\* "select(Tenant).where(Tenant.slug == request.slug)"
TenantsWithSlug(rows, slug) == { i \in DOMAIN rows : rows[i].slug = slug }

\* "select(Tenant).where(Tenant.api_key_hash == api_key_hash,
\*                       Tenant.is_active == True)"
TenantsWithKeyAnyStatus(rows, api_key_hash) ==
    { i \in DOMAIN rows : rows[i].api_key_hash = api_key_hash }

TenantsWithKey(rows, api_key_hash) ==
    { i \in DOMAIN rows : /\ rows[i].api_key_hash = api_key_hash
                          /\ rows[i].is_active = TRUE }

\* get_current_tenant over the rows its SELECT reads: the tenant, or 401;
\* scalar_one_or_none raises when several rows match
current_tenant(api_key, rows) ==
    IF api_key = NoKey
    THEN [status |-> 401]
    ELSE LET found == TenantsWithKey(rows, hash_api_key(api_key))
         IN  IF found = {} THEN [status |-> 401]
             ELSE IF Cardinality(found) > 1 THEN [status |-> 500]
             ELSE [status |-> 200, tenant |-> rows[CHOOSE i \in found : TRUE].id]

tenancy_frame ==
    UNCHANGED <<handler, process, embed_call, seed>>

\* POST /tenants arrives
CreateReceive(r) ==
    /\ creates[r].pc = "idle"
    /\ Len(tenants) + Cardinality({ u \in Workers : creates[u].pc \in {"select", "commit"} })
           < MaxTenants
    /\ \E slug \in Slugs :
         creates' = [creates EXCEPT ![r] = [pc |-> "select", slug |-> slug, status |-> 0]]
    /\ UNCHANGED <<tenants, auth>>
    /\ tenancy_frame

\* create_tenant: the SELECT by slug; 400 when a tenant has it
CreateSelect(r) ==
    /\ creates[r].pc = "select"
    /\ creates' = IF TenantsWithSlug(tenants, creates[r].slug) # {}
                  THEN [creates EXCEPT ![r].pc = "done", ![r].status = 400]
                  ELSE [creates EXCEPT ![r].pc = "commit"]
    /\ UNCHANGED <<tenants, auth>>
    /\ tenancy_frame

\* create_tenant: db.add(tenant) and db.commit().  Tenant.slug is unique:
\* when the slug has been taken meanwhile the INSERT fails, the exception is
\* not caught by create_tenant and the response is 500.
CreateCommit(r) ==
    /\ creates[r].pc = "commit"
    /\ IF TenantsWithSlug(tenants, creates[r].slug) # {}
       THEN /\ creates' = [creates EXCEPT ![r].pc = "done", ![r].status = 500]
            /\ tenants' = tenants
       ELSE /\ creates' = [creates EXCEPT ![r].pc = "done", ![r].status = 201]
            /\ tenants' = Append(tenants,
                   [id |-> Len(tenants) + 1, slug |-> creates[r].slug,
                    api_key_hash |-> hash_api_key(Token(Len(tenants) + 1)),
                    is_active |-> TRUE])
    /\ UNCHANGED auth
    /\ tenancy_frame

\* the response is sent
CreateRespond(r) ==
    /\ creates[r].pc = "done"
    /\ creates' = [creates EXCEPT ![r] = NoCreate]
    /\ UNCHANGED <<tenants, auth>>
    /\ tenancy_frame

\* an operator switches a tenant off in the database (Tenant.is_active)
Deactivate ==
    /\ \E i \in DOMAIN tenants :
         /\ tenants[i].is_active
         /\ tenants' = [tenants EXCEPT ![i].is_active = FALSE]
    /\ UNCHANGED <<creates, auth>>
    /\ tenancy_frame

\* a request with some X-API-Key header, or none, reaches get_current_tenant
AuthCall ==
    /\ auth = NoAuth
    /\ \E k \in PresentedKeys :
         auth' = [pc |-> "query", api_key |-> k, result |-> [status |-> 0]]
    /\ UNCHANGED <<tenants, creates>>
    /\ tenancy_frame

\* get_current_tenant: the check of the key, the SELECT, the 401 or the tenant
AuthQuery ==
    /\ auth.pc = "query"
    /\ auth' = [auth EXCEPT !.pc = "answered",
                            !.result = current_tenant(auth.api_key, tenants)]
    /\ UNCHANGED <<tenants, creates>>
    /\ tenancy_frame

AuthReturn ==
    /\ auth.pc = "answered"
    /\ auth' = NoAuth
    /\ UNCHANGED <<tenants, creates>>
    /\ tenancy_frame

NextTenants ==
    \/ \E r \in Workers :
          \/ CreateReceive(r)
          \/ CreateSelect(r)
          \/ CreateCommit(r)
          \/ CreateRespond(r)
    \/ Deactivate
    \/ AuthCall
    \/ AuthQuery
    \/ AuthReturn

SpecTenants == Init /\ [][NextTenants]_vars

\* =================================================================== claims
\* What the claims speak of, stated apart from the handler's own queries.

\* equality of two strings ignoring case
EqualIgnoringCase(a, b) == PyLower(a) = PyLower(b)

\* a filter is given when the request carries a non-empty value for it
FilterGiven(f) == f # Null /\ f # ""

\* hotel i is in the tenant+filter scope of the request
InScope(i, req) ==
    /\ hotels[i].tenant_id = req.tenant_id
    /\ FilterGiven(req.city) => EqualIgnoringCase(hotels[i].city, req.city)
    /\ FilterGiven(req.district) =>
          (hotels[i].district # Null /\ EqualIgnoringCase(hotels[i].district, req.district))

ScopeIds(req) == { i \in DOMAIN hotels : InScope(i, req) }

\* the candidate set: hotels of the scope that carry an embedding
EmbeddedScopeIds(req) == { i \in ScopeIds(req) : hotels[i].embedding # NoEmbedding }

\* the ids of a set, in insertion order
RECURSIVE InInsertionOrder(_)
InInsertionOrder(S) ==
    IF S = {} THEN <<>>
    ELSE LET first == CHOOSE i \in S : \A j \in S : i <= j
         IN  <<first>> \o InInsertionOrder(S \ {first})

Answered == pc = "done"
ReturnedIds == { response.hotels[n].id : n \in DOMAIN response.hotels }
DistanceOf(i) == CosineDistance(hotels[i].embedding, query_embedding)

\* C1: every hotel of a hybrid_search response, and of the list the Rank step
\* built, belongs to the tenant of the request, on the vector path and on the
\* fallback path alike.
C1_TenantIsolation ==
    /\ \A n \in DOMAIN hotel_results :
          hotels[hotel_results[n].id].tenant_id = request.tenant_id
    /\ Answered =>
          \A n \in DOMAIN response.hotels :
              hotels[response.hotels[n].id].tenant_id = request.tenant_id

\* a fallback response with hotels, while another tenant owns a hotel
C1_Witness ==
    /\ Answered
    /\ response.hotels # <<>>
    /\ EmbeddedScopeIds(request) = {}
    /\ \E i \in DOMAIN hotels : hotels[i].tenant_id # request.tenant_id

\* C2: every hotel of a response matches each filter the request gives (city,
\* district; equality ignoring case), on the vector path and on the fallback
\* path.
C2_FiltersRespected ==
    Answered =>
        \A n \in DOMAIN response.hotels :
            LET h == hotels[response.hotels[n].id]
            IN  /\ FilterGiven(request.city) => EqualIgnoringCase(h.city, request.city)
                /\ FilterGiven(request.district) =>
                      (h.district # Null /\ EqualIgnoringCase(h.district, request.district))

\* C3: when the scope holds N >= 1 hotels and none has an embedding, the
\* response lists the first min(k, N) hotels of the scope in insertion order,
\* each with similarity_score 0.
C3_FallbackLaw ==
    (Answered /\ ScopeIds(request) # {} /\ EmbeddedScopeIds(request) = {}) =>
        LET expected == Limit(InInsertionOrder(ScopeIds(request)), request.limit)
        IN  /\ Len(response.hotels) = Len(expected)
            /\ \A n \in DOMAIN expected :
                  /\ response.hotels[n].id = expected[n]
                  /\ response.hotels[n].similarity_score = 0

\* C4: the response is empty exactly when the tenant+filter scope is empty.
C4_EmptyIffScopeEmpty ==
    Answered =>
        /\ (response.hotels = <<>>) <=> (ScopeIds(request) = {})
        /\ (response.total_results = 0) <=> (ScopeIds(request) = {})

C6_SummarizerNeverRaises == summarizer # "raised"

\* C7: a search runs its pipeline only for the tenant the gate resolves from the
\* request's X-API-Key.
C7_ScopeIsAuthenticatedTenant ==
    pc \in {"embed", "rank", "summarize", "assemble", "done"} =>
        /\ get_current_tenant(request.api_key) # Null
        /\ request.tenant_id = get_current_tenant(request.api_key)

\* C8: on the vector path each similarity_score is 1 - d for a distance d of at
\* most 1 and 0 for a larger one, d the cosine distance between the query vector
\* and the hotel's embedding; every score of every list lies in [0, 1].
C8_ScoreIsClampedSimilarity ==
    /\ \A n \in DOMAIN hotel_results :
          /\ hotel_results[n].similarity_score >= 0
          /\ hotel_results[n].similarity_score <= One
          /\ EmbeddedScopeIds(request) # {} =>
                LET d == DistanceOf(hotel_results[n].id)
                IN  hotel_results[n].similarity_score = IF d <= One THEN One - d ELSE 0
    /\ Answered =>
          \A n \in DOMAIN response.hotels :
              /\ response.hotels[n].similarity_score >= 0
              /\ response.hotels[n].similarity_score <= One
              /\ EmbeddedScopeIds(request) # {} =>
                    LET d == DistanceOf(response.hotels[n].id)
                    IN  response.hotels[n].similarity_score = IF d <= One THEN One - d ELSE 0

\* a vector-path response with a hotel farther than distance 1 (clamped to 0)
\* and a hotel at distance 0 (score 1)
C8_Witness ==
    /\ Answered
    /\ EmbeddedScopeIds(request) # {}
    /\ \E n \in DOMAIN response.hotels :
          /\ DistanceOf(response.hotels[n].id) > One
          /\ response.hotels[n].similarity_score = 0
    /\ \E n \in DOMAIN response.hotels :
          /\ DistanceOf(response.hotels[n].id) = 0
          /\ response.hotels[n].similarity_score = One

\* C9: when M >= 1 hotels of the scope have embeddings, the response holds
\* exactly min(k, M) hotels.
C9_CountIsMinOfLimitAndCandidates ==
    (Answered /\ EmbeddedScopeIds(request) # {}) =>
        /\ Len(response.hotels) = Min(request.limit, Cardinality(EmbeddedScopeIds(request)))
        /\ Len(response.hotels) <= request.limit
        /\ response.total_results = Len(response.hotels)

\* more candidates than the limit: the list is cut to the limit
C9_Witness ==
    /\ Answered
    /\ Cardinality(EmbeddedScopeIds(request)) > request.limit
    /\ Len(response.hotels) = request.limit

\* C10: similarity_score never increases along the list of a response, and on
\* the vector path the list holds distinct candidates, none of the candidates
\* left out being strictly closer to the query than a listed one.
C10_TopKByDistance ==
    Answered =>
        /\ \A n, m \in DOMAIN response.hotels :
              n < m => response.hotels[n].similarity_score >= response.hotels[m].similarity_score
        /\ EmbeddedScopeIds(request) # {} =>
              /\ ReturnedIds \subseteq EmbeddedScopeIds(request)
              /\ Cardinality(ReturnedIds) = Len(response.hotels)
              /\ \A n, m \in DOMAIN response.hotels :
                    n < m => DistanceOf(response.hotels[n].id) <= DistanceOf(response.hotels[m].id)
              /\ \A i \in EmbeddedScopeIds(request) \ ReturnedIds :
                    \A j \in ReturnedIds : DistanceOf(i) >= DistanceOf(j)

\* a candidate is left out, and it is strictly farther than the listed one
C10_Witness ==
    /\ Answered
    /\ response.hotels # <<>>
    /\ \E i \in EmbeddedScopeIds(request) \ ReturnedIds :
          \A j \in ReturnedIds : DistanceOf(i) > DistanceOf(j)

\* the score the response is to show for candidate i
ScoreOf(i) == IF DistanceOf(i) <= One THEN One - DistanceOf(i) ELSE 0

\* C11: on the vector path, hotels of equal similarity score are listed in
\* insertion order, and a tie at the cut-off keeps the hotel inserted earlier.
C11_StableTies ==
    (Answered /\ EmbeddedScopeIds(request) # {}) =>
        /\ \A n, m \in DOMAIN response.hotels :
              (n < m /\ response.hotels[n].similarity_score = response.hotels[m].similarity_score)
                  => response.hotels[n].id < response.hotels[m].id
        /\ \A i \in EmbeddedScopeIds(request) \ ReturnedIds :
              \A j \in ReturnedIds : ScoreOf(i) = ScoreOf(j) => j < i

\* C12: a search repeated with the same tenant, query vector, limit and filters
\* over the unchanged catalog is answered with the same hotels, in the same
\* order, with the same scores.
C12_Idempotent ==
    (/\ Answered
     /\ previous # NoPrevious
     /\ request = previous.request
     /\ query_embedding = previous.query_embedding)
        => response.hotels = previous.hotels

\* a text of spaces only (the empty text included)
OnlySpaces(text) == \A i \in DOMAIN text : text[i] = " "

\* the inputs the Validate stage is to reject
InvalidInput(req) ==
    \/ OnlySpaces(req.query)
    \/ Len(req.query) < QueryMinLength
    \/ Len(req.query) > QueryMaxLength
    \/ req.limit < LimitMin
    \/ req.limit > LimitMax

\* C13: a request with an empty or whitespace-only query, a query length
\* outside 3..500 or a limit outside 1..20 never leaves the Validate stage
\* except rejected with a 4xx, and no model, database or generation call is
\* made for it.
C13_InvalidInputRejected ==
    (pc # "idle" /\ InvalidInput(request)) =>
        /\ pc \in {"validate", "failed"}
        /\ stages = <<"validate">>
        /\ calls = NoCalls
        /\ pc = "failed" => response.status \in {400, 422}

\* the whitespace-only query of legal length has been rejected
C13_Witness ==
    /\ pc = "failed"
    /\ request.query = <<" ", " ", " ">>
    /\ response.status = 400
    /\ calls = NoCalls

\* C14: when the model hands back a vector of unexpected length, the request
\* ends with a server error (5xx), never with a client error.
C14_EncodingFailureIsServerError ==
    (pc = "failed" /\ encode_outcome = "wrong_length") =>
        (response.status >= 500 /\ response.status <= 599)

\* C15: a search whose tenant identity is absent or malformed ends at the Rank
\* stage with an authorization-class error (401 or 403).
C15_InvalidScopeIsAuthorizationError ==
    (/\ pc \in {"failed", "done"}
     /\ (request.tenant_id = Null \/ request.tenant_id \in MalformedTenantIds))
        => /\ pc = "failed"
           /\ response.status \in {401, 403}
           /\ stages # <<>>
           /\ stages[Len(stages)] = "rank"

\* the place of a stage in the pipeline
StageOrder(stage) ==
    CASE stage = "validate"  -> 1
      [] stage = "embed"     -> 2
      [] stage = "rank"      -> 3
      [] stage = "summarize" -> 4
      [] stage = "assemble"  -> 5

\* the steps from one stage to the next the pipeline allows
StageSteps ==
    { <<"validate", "embed">>, <<"embed", "rank">>, <<"rank", "summarize">>,
      <<"rank", "assemble">>, <<"summarize", "assemble">> }

StagesWellOrdered ==
    /\ stages # <<>> => stages[1] = "validate"
    /\ \A i, j \in DOMAIN stages : i < j => StageOrder(stages[i]) < StageOrder(stages[j])
    /\ \A i \in DOMAIN stages :
          i < Len(stages) => <<stages[i], stages[i + 1]>> \in StageSteps
    /\ pc \in StageNames => (stages # <<>> /\ stages[Len(stages)] = pc)
    /\ pc = "failed" => stages[Len(stages)] \in {"validate", "embed", "rank"}
    /\ pc = "done" => stages[Len(stages)] = "assemble"

\* C16: a request enters the stages Validate, Embed, Rank, Summarize (optional),
\* Assemble in that order, none twice; a failure in Validate, Embed or Rank is
\* terminal (after it the request only ends); Assemble follows a completed Rank.
C16_StagesInOrder ==
    /\ []StagesWellOrdered
    /\ [][pc = "failed" => (pc' = "idle" /\ stages' = <<>>)]_vars
    /\ [][pc' = "assemble" => pc \in {"rank", "summarize"}]_vars

\* a request that went through all five stages
C16_Witness ==
    /\ pc = "done"
    /\ stages = <<"validate", "embed", "rank", "summarize", "assemble">>

\* C17: within a request the model is called exactly once when the request
\* passed validation, the generation service exactly once when Summarize was
\* entered and never otherwise, and no call is made a second time after failing.
C17_NoRetry ==
    /\ calls.embed <= 1
    /\ calls.generate <= 1
    /\ pc = "embed" => calls.embed = 0
    /\ (pc # "embed" /\ \E i \in DOMAIN stages : stages[i] = "embed") => calls.embed = 1
    /\ pc = "summarize" => calls.generate = 0
    /\ (pc # "summarize" /\ \E i \in DOMAIN stages : stages[i] = "summarize")
          => calls.generate = 1
    /\ (\A i \in DOMAIN stages : stages[i] # "summarize") => calls.generate = 0

\* a request answered after its one generation call failed
C17_Witness ==
    /\ Answered
    /\ summarizer = "raised"
    /\ calls.generate = 1
    /\ calls.embed = 1

\* C18: the generation service is called for a request exactly when
\* include_ai_summary is true and the Rank stage produced a hotel; when it is
\* not called, ai_summary is absent.
C18_GenerationIffRequestedAndResults ==
    /\ calls.generate >= 1 => (request.include_ai_summary /\ hotel_results # <<>>)
    /\ pc \in {"assemble", "done"} =>
          /\ (calls.generate = 1) <=> (request.include_ai_summary /\ hotel_results # <<>>)
          /\ calls.generate = 0 => ai_summary = Null
    /\ (Answered /\ calls.generate = 0) => response.ai_summary = Null

\* a summary was requested, the Rank stage found no hotel, no call was made
C18_Witness ==
    /\ Answered
    /\ request.include_ai_summary
    /\ response.hotels = <<>>
    /\ calls.generate = 0
    /\ response.ai_summary = Null

\* C20: the ai_summary of a response is never the empty string: empty generated
\* text is answered as null, other text as generated.
C20_EmptySummaryIsAbsent ==
    Answered => response.ai_summary # ""

\* C19: generate_summary called with an empty list returns without having
\* called the generation service, and returns no summary.
C19_EmptyListMakesNoCall ==
    (unit.pc = "returned" /\ unit.hotels = <<>>) =>
        (unit.calls = 0 /\ unit.result.kind = "none")

\* ------------------------------------------------------------------- C21
\* a request waiting for the model or for the generation service
WaitingOnCall(r) == tasks[r].pc \in {"embed_wait", "generate_call"}

\* C21: while one request waits on the embedding-model call or on the
\* generation-service call, every other request whose code is ready to run
\* can be run by the event loop: the waiting request does not hold the loop.
C21_WaitingDoesNotBlockOthers ==
    \A r, u \in Workers :
        (r # u /\ WaitingOnCall(r) /\ Resumable(u)) => LoopFree

\* ------------------------------------------------------------------- C22
\* C22: handling a request writes no process-wide variable (_embedder and
\* _groq_service included) and no row of the catalog: every step taken for
\* a request leaves them as they were.
C22_NoSharedStateWritten ==
    [][UNCHANGED <<_embedder, _groq_service, hotels>>]_vars

\* ------------------------------------------------------------------- C23
\* C23: embed_text returns a vector of exactly embedding_dim components or
\* fails, never a vector of another length; for an empty or whitespace-only
\* text it fails and the model is not invoked.
C23_EmbedTextExactWidthOrFails ==
    (embed_call.pc = "returned" /\ embed_call.method = "embed_text") =>
        /\ embed_call.result.kind \in {"ok", "ValueError", "Exception"}
        /\ embed_call.result.kind = "ok" =>
               Len(embed_call.result.vector) = embedding_dim
        /\ OnlySpaces(embed_call.texts[1]) =>
               /\ embed_call.result.kind = "ValueError"
               /\ embed_call.invoked = 0

\* the model handed back a vector one component too long and embed_text failed
C23_Witness ==
    /\ embed_call.pc = "returned"
    /\ embed_call.method = "embed_text"
    /\ embed_call.texts = << <<"s", "p", "a">> >>
    /\ embed_call.invoked = 1
    /\ embed_call.result.kind = "ValueError"
    /\ Len(embed_call.encoded[1]) = embedding_dim + 1

\* ------------------------------------------------------------------- C24
\* a list embed_documents must refuse: empty, or with an empty or blank text
RefusedList(texts) ==
    texts = <<>> \/ \E n \in DOMAIN texts : OnlySpaces(texts[n])

\* C24: embed_texts is all-or-nothing: an empty list, or a list with an empty
\* or whitespace-only text, fails without the model being invoked and no
\* vector is returned; when vectors are returned there is exactly one for
\* each input text, of embedding_dim components, at the input's position.
C24_EmbedTextsAllOrNothing ==
    (embed_call.pc = "returned" /\ embed_call.method = "embed_texts") =>
        /\ RefusedList(embed_call.texts) =>
               /\ embed_call.result.kind = "ValueError"
               /\ embed_call.invoked = 0
        /\ embed_call.result.kind = "ok" =>
               /\ Len(embed_call.result.vectors) = Len(embed_call.texts)
               /\ \A n \in DOMAIN embed_call.texts :
                      /\ Len(embed_call.result.vectors[n]) = embedding_dim
                      /\ embed_call.result.vectors[n] =
                            encode(Prefixed(embed_call.prefix, embed_call.texts[n]),
                                   embedding_dim)

\* two different texts came back as two different vectors, in their order
C24_Witness ==
    /\ embed_call.pc = "returned"
    /\ embed_call.method = "embed_texts"
    /\ embed_call.texts = << <<"s", "p", "a">>, <<"o", "t", "e", "l">> >>
    /\ embed_call.result.kind = "ok"
    /\ embed_call.result.vectors[1] # embed_call.result.vectors[2]

\* ------------------------------------------------------------------- C25
\* the role markers of the E5 models
QueryMarker == <<"q", "u", "e", "r", "y", ":", " ">>
PassageMarker == <<"p", "a", "s", "s", "a", "g", "e", ":", " ">>

\* the model is about to be, or has been, given the call's input
InputBuilt == embed_call.pc \in {"encode", "convert"}

\* C25 as stated: embed_text always gives the model its text with the query
\* marker and embed_texts always gives it every text with the passage
\* marker, so the input for a string as a query differs from its input as a
\* document.
C25_RolesAlwaysDiffer ==
    InputBuilt =>
        /\ embed_call.method = "embed_text" =>
               embed_call.input = <<QueryMarker \o embed_call.texts[1]>>
        /\ embed_call.method = "embed_texts" =>
               \A n \in DOMAIN embed_call.texts :
                   /\ embed_call.input[n] = PassageMarker \o embed_call.texts[n]
                   /\ embed_call.input[n] # QueryMarker \o embed_call.texts[n]

\* C25 amended: embed_text always uses the query marker; embed_texts uses
\* the marker named by its prefix argument, which is the passage marker when
\* the argument is left at its default "passage", and then the input for a
\* string as a document differs from its input as a query.
C25_RolesDifferForPassagePrefix ==
    InputBuilt =>
        /\ embed_call.method = "embed_text" =>
               embed_call.input = <<QueryMarker \o embed_call.texts[1]>>
        /\ (embed_call.method = "embed_texts" /\ embed_call.prefix = "passage") =>
               \A n \in DOMAIN embed_call.texts :
                   /\ embed_call.input[n] = PassageMarker \o embed_call.texts[n]
                   /\ embed_call.input[n] # QueryMarker \o embed_call.texts[n]
        /\ (embed_call.method = "embed_texts" /\ embed_call.prefix = "query") =>
               \A n \in DOMAIN embed_call.texts :
                   embed_call.input[n] = QueryMarker \o embed_call.texts[n]

\* a batch of documents went to the model with the passage marker
C25_Witness ==
    /\ embed_call.pc = "convert"
    /\ embed_call.method = "embed_texts"
    /\ embed_call.prefix = "passage"
    /\ embed_call.texts = << <<"s", "p", "a">> >>
    /\ embed_call.input = << PassageMarker \o <<"s", "p", "a">> >>

\* ------------------------------------------------------------------- C26
\* the embeddings a script has stored or has handed to its session to store
IngestedEmbeddings ==
    { hotels[i].embedding : i \in DOMAIN hotels } \cup
    (IF seed = NoSeed THEN {}
     ELSE { seed.pending[n].embedding : n \in DOMAIN seed.pending })

\* C26: every embedding an ingestion path (seed_db, seed_real_hotels,
\* update_embeddings) stores or tries to store on a hotel has exactly 768
\* components, the width the query embedder produces.
C26_IngestedEmbeddingsHaveModelWidth ==
    \A e \in IngestedEmbeddings :
        e # NoEmbedding => (Len(e) = 768 /\ Len(e) = embedding_dim)

\* ------------------------------------------------------------------- C27
\* the key is the one issued to tenant row i
KeyOf(rows, i, api_key) == rows[i].api_key_hash = <<"sha256", api_key>>

\* C27: get_current_tenant returns a tenant only if a key is supplied, the
\* key's SHA-256 hash is that tenant's stored hash and the tenant is active
\* when the gate asks; a missing key, an unknown key and the key of an
\* inactive tenant each give 401 and no tenant.
C27_OnlyActiveTenantAuthenticates ==
    [][ (auth.pc = "query" /\ auth'.pc = "answered") =>
          LET key == auth.api_key
              res == auth'.result
              holders == { i \in DOMAIN tenants : KeyOf(tenants, i, key) }
          IN  /\ res.status = 200 =>
                    /\ key # NoKey
                    /\ \E i \in holders : /\ tenants[i].is_active
                                           /\ res.tenant = tenants[i].id
              /\ ( \/ key = NoKey
                   \/ holders = {}
                   \/ \A i \in holders : ~tenants[i].is_active )
                 => res.status = 401 ]_vars

\* the key of a tenant that was switched off has been refused
C27_Witness ==
    /\ auth.pc = "answered"
    /\ auth.result.status = 401
    /\ \E i \in DOMAIN tenants :
         /\ KeyOf(tenants, i, auth.api_key)
         /\ ~tenants[i].is_active

\* ------------------------------------------------------------------- C28
\* C28: no two tenants share a slug, and every create request that did not
\* add a tenant, the loser of a race for a slug included, got 400.
C28_TakenSlugGives400 ==
    /\ \A i, j \in DOMAIN tenants :
          i # j => tenants[i].slug # tenants[j].slug
    /\ \A r \in Workers :
          creates[r].pc = "done" => creates[r].status \in {201, 400}

\* ------------------------------------------------------------------- C29
\* C29: however the first calls of get_embedder, and of get_groq_service,
\* interleave, at most one instance of each service is constructed in the
\* process and all callers receive that one instance.
C29_OneInstancePerProcess ==
    /\ constructed.embedder <= 1
    /\ constructed.groq_service <= 1
    /\ \A r, u \in Workers :
          /\ (tasks[r].embedder # None /\ tasks[u].embedder # None)
                 => tasks[r].embedder = tasks[u].embedder
          /\ (tasks[r].groq_service # None /\ tasks[u].groq_service # None)
                 => tasks[r].groq_service = tasks[u].groq_service

\* ------------------------------------------------------------------- C30
\* the hotels stored, followed by those seed_hotels has added in this run
StoredOrAdded ==
    hotels \o (IF seed = NoSeed THEN <<>> ELSE seed.pending)

\* C30: seed_hotels deduplicates by external_id: no two hotels of one tenant,
\* stored by an earlier run or added earlier in the same run, share an
\* external_id; a record whose external_id is already taken is skipped.
C30_NoDuplicateExternalId ==
    \A i, j \in DOMAIN StoredOrAdded :
        ( /\ i # j
          /\ StoredOrAdded[i].tenant_id = StoredOrAdded[j].tenant_id
          /\ StoredOrAdded[i].external_id # NoExternalId )
        => StoredOrAdded[i].external_id # StoredOrAdded[j].external_id

====
